---- MODULE Spec2Model ----
(***************************************************************************)
(* A model of the meow-vm core: the Value coercions (value.cpp), the heap  *)
(* objects and their trace (definitions.h), the bytecode Chunk (chunk.h),  *)
(* the MemoryManager (memory_manager.h), the engine state (meow_state.h)   *)
(* and MeowVM::interpret (meow_vm.cpp).                                    *)
(*                                                                         *)
(* Int is int64_t in the source. TLC's integers are 32 bits wide, so Int   *)
(* is modelled as a two's-complement integer of IntBits bits, and every    *)
(* limit of the source (numeric_limits<int64_t>::max(), min()) is the      *)
(* limit of that width. A std::string is a sequence of one-character       *)
(* strings.                                                                *)
(***************************************************************************)
EXTENDS Integers, Sequences, FiniteSets, TLC

VARIABLES
    val,        \* Value: the Value a coercion is applied to
    out,        \* the coercion last applied to val and what it returned
    origin,     \* the Value whose asString() the String in val was built from
    methods,    \* ObjHash::methods, its entries in the order it iterates them
    hashOut,    \* the ObjHash operation last called and how it ended
    code,       \* Chunk::code
    constantPool, \* Chunk::constantPool
    ip,         \* Chunk::ip, the read cursor
    wlog,       \* the writeByte / writeInt64 calls made, with their arguments
    rlog,       \* the readByte / readInt64 calls made, with what they returned
    constOut,   \* the readConstant call last made and what it returned
    allocated,  \* MemoryManager::allocated
    threshold,  \* MemoryManager::threshold
    state,      \* MemoryManager::state is set (not a null pointer)
    created,    \* the objects newObject has constructed
    registered, \* the calls of GarbageCollector::registerObject
    sinceCycle, \* the objects constructed since the collector last ran
    memLast,    \* the MemoryManager operation last called
    pc,         \* the statement of newObject the call in progress is at
    cur,        \* newObject: the object the call in progress constructed
    calls,      \* the newObject calls entered
    built,      \* per object constructed, the collector cycles run before it
    regLog,     \* the calls of registerObject: the object and the cycles run
    returned,   \* the objects newObject has returned to its caller
    cycles,     \* the collector cycles run
    callStack,  \* MeowState::callStack
    stackSlots, \* MeowState::stackSlots
    openUpvalues, \* MeowState::openUpvalues
    moduleCache, \* MeowState::moduleCache, its entries
    exceptionHandlers, \* MeowState::exceptionHandlers
    vpc,        \* MeowVM::interpret: the statement the call in progress is at
    vmOut,      \* the MeowVM / MeowState operation last called and how it ended
    roots,      \* what MeowState::getRoots last returned
    control,    \* the catch target control was last transferred to, or 0
    pending,    \* the fatal fault raised in the try block of interpret
    trace,      \* the instructions executed since interpret began
    heapObj,    \* the heap object trace is called on, with what it holds
    visits,     \* the Values trace has passed to GCVisitor::visitValue
    traced      \* the kind of object whose trace has returned, or "none"

valueVars == <<val, out, origin>>
hashVars == <<methods, hashOut>>
chunkVars == <<code, constantPool, ip, wlog, rlog, constOut>>
memVars == <<allocated, threshold, state, created, registered, sinceCycle, memLast>>

allocVars == <<pc, cur, calls, built, regLog, returned, cycles>>
stateVars == <<callStack, stackSlots, openUpvalues, moduleCache, exceptionHandlers>>
engineVars == <<stateVars, vpc, vmOut, roots>>
runVars == <<control, pending, trace>>
traceVars == <<heapObj, visits, traced>>
runtimeVars == <<allocVars, engineVars, runVars, traceVars>>

vars == <<valueVars, hashVars, chunkVars, memVars, runtimeVars>>

----------------------------------------------------------------------------
(* Bounds of the model *)

IntBits == 8          \* width of Int in the model (64 in the source)
MaxStrLen == 3        \* longest free-form string handed to a coercion
MaxDecDigits == 3     \* most digits of a decimal literal handed to asInt
MaxElems == 2         \* most elements of a Bytes / Array / Object input
MaxFloatWhole == 11   \* largest integral part of a Float input
MaxFracLen == 2       \* most leading fractional digits of a Float input that vary

(* Program constants *)

FracDigits == 15      \* std::setprecision(15)

Pow2(n) == 2 ^ n

IntMax == Pow2(IntBits - 1) - 1     \* std::numeric_limits<int64_t>::max()
IntMin == -Pow2(IntBits - 1)        \* std::numeric_limits<int64_t>::min()
Ints == IntMin..IntMax

\* static_cast<int64_t>(unsigned long long): the same bits, read as signed
ToSigned(u) == LET m == u % Pow2(IntBits) IN IF m > IntMax THEN m - Pow2(IntBits) ELSE m

\* unary minus on int64_t (two's complement: the minimum negates to itself)
Negate(i) == ToSigned(Pow2(IntBits) - (i % Pow2(IntBits)))

----------------------------------------------------------------------------
(* Characters *)

DigitChars == <<"0", "1", "2", "3", "4", "5", "6", "7", "8", "9">>

NoDigit == 36

\* the value strtoll gives a character as a digit (NoDigit: none in bases <= 16)
DigitValue(c) ==
    CASE c = "0" -> 0 [] c = "1" -> 1 [] c = "2" -> 2 [] c = "3" -> 3
      [] c = "4" -> 4 [] c = "5" -> 5 [] c = "6" -> 6 [] c = "7" -> 7
      [] c = "8" -> 8 [] c = "9" -> 9
      [] c \in {"a", "A"} -> 10 [] c \in {"b", "B"} -> 11
      [] c \in {"c", "C"} -> 12 [] c \in {"d", "D"} -> 13
      [] c \in {"e", "E"} -> 14 [] c \in {"f", "F"} -> 15
      [] OTHER -> NoDigit

\* std::isspace in the "C" locale (of the characters the model writes)
IsSpace(c) == c \in {" ", "\t", "\n", "\r", "\f"}

\* std::isdigit
IsDigit(c) == DigitValue(c) < 10

RECURSIVE NatToString(_)
NatToString(n) ==
    IF n < 10 THEN <<DigitChars[n + 1]>>
    ELSE NatToString(n \div 10) \o <<DigitChars[(n % 10) + 1]>>

\* std::to_string(long long)
IntToString(i) == IF i < 0 THEN <<"-">> \o NatToString(-i) ELSE NatToString(i)

----------------------------------------------------------------------------
(* Values. A reference variant carries the content of the object it points *)
(* to; Module and Proto are opaque.                                        *)

NullV == [tag |-> "Null"]
IntV(i) == [tag |-> "Int", i |-> i]
BoolV(b) == [tag |-> "Bool", b |-> b]
\* a Float: NaN, an infinity, or a finite value given by the decimal expansion
\* that rounds it to FracDigits places (whole part, fractional digits)
FloatV(kind, neg, whole, frac) ==
    [tag |-> "Float", kind |-> kind, neg |-> neg, whole |-> whole, frac |-> frac]
BytesV(data) == [tag |-> "Bytes", data |-> data]
StringV(s) == [tag |-> "String", data |-> s]
ArrayV(elements) == [tag |-> "Array", elements |-> elements]
ObjectV(entries) == [tag |-> "Object", methods |-> entries]
ModuleV == [tag |-> "Module"]
ProtoV == [tag |-> "Proto"]

----------------------------------------------------------------------------
(* Value::asInt, value.cpp:6-84 *)

\* value.cpp:22: the first index (from 0) at or after left that holds no space
RECURSIVE TrimLeft(_, _)
TrimLeft(sfull, left) ==
    IF left < Len(sfull) /\ IsSpace(sfull[left + 1])
    THEN TrimLeft(sfull, left + 1)
    ELSE left

\* value.cpp:24
RECURSIVE TrimRight(_, _, _)
TrimRight(sfull, left, right) ==
    IF right > left /\ IsSpace(sfull[right])
    THEN TrimRight(sfull, left, right - 1)
    ELSE right

\* token[i] of the source, i counted from 0
At(token, i) == token[i + 1]

\* the test of value.cpp:37, 56, 58: "0" and one of the two letters at pos
HasPrefix(token, pos, letters) ==
    /\ Len(token) - pos >= 2
    /\ At(token, pos) = "0"
    /\ At(token, pos + 1) \in letters

\* a variant of the test of value.cpp:45 that compares with the limit itself
\* and not with the half of it (the accumulator is about to be doubled)
BinaryOverflowsUnhalved(accumulator, limit, d) == accumulator > limit - d

\* value.cpp:45: the test that stops the accumulation before it passes limit
BinaryOverflows(accumulator, limit, d) == accumulator > (limit - d) \div 2

\* value.cpp:39-52: the loop over the binary digits. steps records the value
\* of the accumulator after every digit taken.
RECURSIVE BinaryLoop(_, _, _, _, _)
BinaryLoop(token, i, accumulator, negative, steps) ==
    LET limit == IntMax IN
    IF i < Len(token) /\ At(token, i) \in {"0", "1"}
    THEN LET d == DigitValue(At(token, i)) IN
         IF BinaryOverflows(accumulator, limit, d)
         THEN [ret |-> IF negative THEN IntMin ELSE IntMax,
               steps |-> steps, saturated |-> TRUE]
         ELSE LET next == (accumulator * 2 + d) % Pow2(IntBits) IN
              BinaryLoop(token, i + 1, next, negative, Append(steps, next))
    ELSE LET result == ToSigned(accumulator) IN
         [ret |-> IF negative THEN Negate(result) ELSE result,
          steps |-> steps, saturated |-> FALSE]

\* the digits strtoll takes from index i on: where they end, their value
\* (capped just above the limit) and whether the value passed the limit
RECURSIVE StrtollDigits(_, _, _, _, _, _)
StrtollDigits(s, i, base, mag, limit, over) ==
    IF i < Len(s) /\ DigitValue(At(s, i)) < base
    THEN LET m == mag * base + DigitValue(At(s, i)) IN
         IF m > limit
         THEN StrtollDigits(s, i + 1, base, limit, limit, TRUE)
         ELSE StrtollDigits(s, i + 1, base, m, limit, over)
    ELSE [end |-> i, mag |-> mag, over |-> over]

\* std::strtoll(s, &endptr, base) for base 8, 10 or 16: leading spaces, an
\* optional sign, in base 16 an optional 0x before a hex digit, then digits.
\* endptr is an index from 0; ERANGE and the nearest limit on overflow.
Strtoll(s, base) ==
    LET i0 == TrimLeft(s, 0)
        neg == i0 < Len(s) /\ At(s, i0) = "-"
        i1 == IF i0 < Len(s) /\ At(s, i0) \in {"+", "-"} THEN i0 + 1 ELSE i0
        prefixed == /\ base = 16
                    /\ HasPrefix(s, i1, {"x", "X"})
                    /\ i1 + 2 < Len(s)
                    /\ DigitValue(At(s, i1 + 2)) < 16
        i2 == IF prefixed THEN i1 + 2 ELSE i1
        limit == IF neg THEN IntMax + 1 ELSE IntMax
        r == StrtollDigits(s, i2, base, 0, limit, FALSE)
    IN  IF r.end = i2
        THEN [val |-> 0, endptr |-> 0, erange |-> FALSE]
        ELSE [val |-> IF neg THEN -r.mag ELSE r.mag,
              endptr |-> r.end, erange |-> r.over]

\* a variant of the base detection that takes any two digits for octal,
\* without asking that the first be "0"
DetectBaseAnyDigits(token, pos) ==
    IF HasPrefix(token, pos, {"x", "X"}) THEN 16
    ELSE IF HasPrefix(token, pos, {"o", "O"}) THEN 8
    ELSE IF Len(token) - pos >= 2 /\ IsDigit(At(token, pos)) /\ IsDigit(At(token, pos + 1))
         THEN 8
    ELSE 10

\* value.cpp:55-62
DetectBase(token, pos) ==
    IF HasPrefix(token, pos, {"x", "X"}) THEN 16
    ELSE IF HasPrefix(token, pos, {"o", "O"}) THEN 8
    ELSE IF Len(token) - pos >= 2 /\ At(token, pos) = "0" /\ IsDigit(At(token, pos + 1))
         THEN 8
    ELSE 10

\* a variant of value.cpp:69-71 that takes a literal out of range for one
\* that cannot be parsed
ParseRangeAsUnparsable(token, base) ==
    LET r == Strtoll(token, base) IN
    IF r.endptr = 0 \/ r.erange THEN 0 ELSE r.val

\* value.cpp:64-80: strtoll on the whole token, sign included
ParseWithStrtoll(token, base) ==
    LET r == Strtoll(token, base) IN
    IF r.endptr = 0 THEN 0
    ELSE IF r.erange THEN (IF r.val > 0 THEN IntMax ELSE IntMin)
    ELSE IF r.val > IntMax THEN IntMax
    ELSE IF r.val < IntMin THEN IntMin
    ELSE r.val

\* value.cpp:29-35: the sign and the position after it; pos = Len(token) when
\* the token is a sign alone
SignOf(token) ==
    IF At(token, 0) \in {"+", "-"}
    THEN [negative |-> At(token, 0) = "-", pos |-> 1]
    ELSE [negative |-> FALSE, pos |-> 0]

\* value.cpp:18-81: asInt of a String holding sfull
StringAsInt(sfull) ==
    LET left == TrimLeft(sfull, 0)
        right == TrimRight(sfull, left, Len(sfull))
    IN  IF left >= right THEN 0
        ELSE LET token == SubSeq(sfull, left + 1, right)
                 sign == SignOf(token)
             IN  IF sign.pos >= Len(token) THEN 0
                 ELSE IF HasPrefix(token, sign.pos, {"b", "B"})
                      THEN BinaryLoop(token, sign.pos + 2, 0, sign.negative, <<>>).ret
                 ELSE ParseWithStrtoll(token, DetectBase(token, sign.pos))

\* a finite Float is zero
FloatIsZero(f) == f.whole = 0 /\ \A k \in 1..Len(f.frac) : f.frac[k] = 0

\* value.cpp:10-16
FloatAsInt(f) ==
    IF f.kind = "inf" THEN (IF ~f.neg THEN IntMax ELSE IntMin)
    ELSE IF f.kind = "nan" THEN 0
    ELSE IF f.neg THEN -f.whole ELSE f.whole

\* Value::asInt
AsInt(v) ==
    CASE v.tag = "Null" -> 0
      [] v.tag = "Int" -> v.i
      [] v.tag = "Float" -> FloatAsInt(v)
      [] v.tag = "Bool" -> (IF v.b THEN 1 ELSE 0)
      [] v.tag = "String" -> StringAsInt(v.data)
      [] OTHER -> 0

----------------------------------------------------------------------------
(* Value::asBool, value.cpp:122-135 *)

\* The values asBool may return. A Bytes matches no lambda of its own and
\* falls to the generic one (value.cpp:133), which answers true. The String
\* lambda (value.cpp:130) evaluates !s->empty() and returns nothing: flowing
\* off the end of a function returning bool is undefined, either value may
\* come back.
AsBoolOutcomes(v) ==
    CASE v.tag = "Null" -> {FALSE}
      [] v.tag = "Int" -> {v.i # 0}
      [] v.tag = "Float" -> {v.kind # "nan" /\ (v.kind = "inf" \/ ~FloatIsZero(v))}
      [] v.tag = "Bool" -> {v.b}
      [] v.tag = "String" -> BOOLEAN
      [] v.tag = "Array" -> {Len(v.elements) # 0}
      [] v.tag = "Object" -> {Len(v.methods) # 0}
      [] OTHER -> {TRUE}

----------------------------------------------------------------------------
(* Value::asString, value.cpp:137-180 *)

Npos == -1     \* std::string::npos

\* std::string::find(c): the first index (from 0) holding c, or npos
RECURSIVE FindFrom(_, _, _)
FindFrom(str, c, i) ==
    IF i >= Len(str) THEN Npos
    ELSE IF At(str, i) = c THEN i
    ELSE FindFrom(str, c, i + 1)

\* value.cpp:153
RECURSIVE TrimZeros(_, _, _)
TrimZeros(str, pos, end) ==
    IF end > pos + 1 /\ At(str, end - 1) = "0"
    THEN TrimZeros(str, pos, end - 1)
    ELSE end

RECURSIVE DigitsToString(_)
DigitsToString(ds) ==
    IF ds = <<>> THEN <<>>
    ELSE <<DigitChars[Head(ds) + 1]>> \o DigitsToString(Tail(ds))

\* value.cpp:146-149: os << std::fixed << std::setprecision(15) << f
FixedRender(f) ==
    (IF f.neg THEN <<"-">> ELSE <<>>)
        \o NatToString(f.whole) \o <<".">> \o DigitsToString(f.frac)

\* value.cpp:150-155: line 154 moves pos, not end, so the substring that is
\* returned still ends where the zeros were cut
TrimFixed(str) ==
    LET pos == FindFrom(str, ".", 0) IN
    IF pos = Npos THEN str
    ELSE LET end == TrimZeros(str, pos, Len(str))
             pos1 == IF end = pos + 1 THEN pos - 1 ELSE pos
         IN  SubSeq(str, 1, end)

\* value.cpp:141-156
FloatAsString(f) ==
    IF f.kind = "nan" THEN <<"N", "a", "N">>
    ELSE IF f.kind = "inf"
         THEN (IF ~f.neg THEN <<"I", "n", "f", "i", "n", "i", "t", "y">>
               ELSE <<"-", "I", "n", "f", "i", "n", "i", "t", "y">>)
    ELSE IF FloatIsZero(f) /\ f.neg THEN <<"-", "0">>
    ELSE TrimFixed(FixedRender(f))

BoolAsString(b) ==
    IF b THEN <<"t", "r", "u", "e">> ELSE <<"f", "a", "l", "s", "e">>

\* Value::asString. methods lists the entries of an ObjHash in the order its
\* unordered_map iterates them. Bytes, Module and Proto have no lambda of
\* their own: the pointer converts to bool and the Bool lambda answers.
RECURSIVE AsString(_)
RECURSIVE ArrayAsString(_, _, _)
RECURSIVE ObjectAsString(_, _, _)
AsString(v) ==
    CASE v.tag = "Null" -> <<"n", "u", "l", "l">>
      [] v.tag = "Int" -> IntToString(v.i)
      [] v.tag = "Float" -> FloatAsString(v)
      [] v.tag = "Bool" -> BoolAsString(v.b)
      [] v.tag = "String" -> v.data
      [] v.tag = "Array" -> ArrayAsString(v.elements, 0, <<"[">>)
      [] v.tag = "Object" -> ObjectAsString(v.methods, 0, <<"{">>)
      [] OTHER -> BoolAsString(TRUE)

\* value.cpp:159-167
ArrayAsString(a, i, acc) ==
    IF i < Len(a)
    THEN ArrayAsString(a, i + 1,
             acc \o (IF i > 0 THEN <<",", " ">> ELSE <<>>) \o AsString(At(a, i)))
    ELSE acc \o <<"]">>

\* value.cpp:168-178
ObjectAsString(o, i, acc) ==
    IF i < Len(o)
    THEN ObjectAsString(o, i + 1,
             acc \o (IF i > 0 THEN <<",", " ">> ELSE <<>>)
                 \o At(o, i).first \o <<":", " ">> \o AsString(At(o, i).second))
    ELSE acc \o <<"}">>

----------------------------------------------------------------------------
(* The Values the coercions are applied to *)

\* all sequences over S of length at most n
SeqsUpTo(S, n) == UNION {[1..k -> S] : k \in 0..n}

Alphabet == {" ", "-", "0", "1", "7", "9", "x", "o", "b"}

FreeStrings == SeqsUpTo(Alphabet, MaxStrLen)

\* sign, 0b or 0B, and binary digits: enough of them to pass the limit
BinaryLiterals ==
    {sign \o <<"0", letter>> \o digits :
        sign \in {<<>>, <<"+">>, <<"-">>},
        letter \in {"b", "B"},
        digits \in SeqsUpTo({"0", "1"}, IntBits + 1)}

\* sign and decimal digits: enough of them to pass the limit
DecimalLiterals ==
    {sign \o digits :
        sign \in {<<>>, <<"+">>, <<"-">>},
        digits \in SeqsUpTo({"0", "1", "9"}, MaxDecDigits)}

FracLeads == [1..MaxFracLen -> {0, 5, 9}]

PadFrac(lead) == lead \o [k \in 1..(FracDigits - Len(lead)) |-> 0]

\* the k-th key of an Object input: "k1", "k2", ...
KeyName(k) == <<"k">> \o NatToString(k)

\* the entries of an ObjHash
Entry(key, value) == [first |-> key, second |-> value]

NoValue == [tag |-> "None"]

----------------------------------------------------------------------------
(* ObjHash, definitions.h:339-481 *)

MaxKeys == 3          \* the keys an ObjHash is called with: KeyName(1..MaxKeys)

HashKeys == {KeyName(k) : k \in 1..MaxKeys}

\* the Values stored in an ObjHash
StoredValues == {NullV, IntV(1), IntV(2)}

\* the index (from 1) of the entry of key in m, 0 when there is none:
\* methods.find(key), with 0 for methods.end()
RECURSIVE FindEntry(_, _, _)
FindEntry(m, key, k) ==
    IF k > Len(m) THEN 0
    ELSE IF m[k].first = key THEN k
    ELSE FindEntry(m, key, k + 1)

\* all orders of the entries of m
Orders(m) ==
    {[k \in 1..Len(m) |-> m[p[k]]] :
        p \in {q \in [1..Len(m) -> 1..Len(m)] :
                  \A a, b \in 1..Len(m) : a # b => q[a] # q[b]}}

\* how an ObjHash operation ended: the key it was called with, the Value or
\* bool it returned, or the exception it threw
HashEnded(op, key, value, flag, threw) ==
    [op |-> op, key |-> key, value |-> value, flag |-> flag, threw |-> threw]

NoHashCall == HashEnded("none", <<>>, NoValue, FALSE, "")

\* ObjHash(): methods() {}
InitHashObject ==
    /\ methods = <<>>
    /\ hashOut = NoHashCall

\* definitions.h:383-396: return methods.at(key); std::unordered_map::at
\* throws std::out_of_range when the map holds no such key
HashGet(key) ==
    LET k == FindEntry(methods, key, 1) IN
    /\ hashOut' = IF k = 0
                  THEN HashEnded("get", key, NoValue, FALSE, "std::out_of_range")
                  ELSE HashEnded("get", key, methods[k].second, FALSE, "")
    /\ UNCHANGED methods

\* definitions.h:404-416: methods[key] = value; a new key makes a new entry,
\* after which the map may iterate its entries in any order
HashSet(key, value) ==
    LET k == FindEntry(methods, key, 1) IN
    /\ IF k = 0
       THEN methods' \in Orders(Append(methods, Entry(key, value)))
       ELSE methods' = [methods EXCEPT ![k] = Entry(key, value)]
    /\ hashOut' = HashEnded("set", key, value, FALSE, "")

\* definitions.h:440-452: return methods.find(key) != methods.end();
HashHas(key) ==
    /\ hashOut' = HashEnded("has", key, NoValue, FindEntry(methods, key, 1) # 0, "")
    /\ UNCHANGED methods

NextHash ==
    \/ \E key \in HashKeys : HashGet(key) /\ UNCHANGED <<valueVars, chunkVars, memVars, runtimeVars>>
    \/ \E key \in HashKeys, value \in StoredValues :
           HashSet(key, value) /\ UNCHANGED <<valueVars, chunkVars, memVars, runtimeVars>>
    \/ \E key \in HashKeys : HashHas(key) /\ UNCHANGED <<valueVars, chunkVars, memVars, runtimeVars>>

----------------------------------------------------------------------------
(* The Value component *)

IsInput(v) ==
    \/ v \in {NullV, ModuleV, ProtoV}
    \/ \E i \in Ints : v = IntV(i)
    \/ \E b \in BOOLEAN : v = BoolV(b)
    \/ v = FloatV("nan", FALSE, 0, PadFrac(<<>>))
    \/ \E neg \in BOOLEAN : v = FloatV("inf", neg, 0, PadFrac(<<>>))
    \/ \E neg \in BOOLEAN, whole \in 0..MaxFloatWhole, lead \in FracLeads :
           v = FloatV("fin", neg, whole, PadFrac(lead))
    \/ \E data \in SeqsUpTo({0, 255}, MaxElems) : v = BytesV(data)
    \/ \E s \in FreeStrings \cup BinaryLiterals \cup DecimalLiterals : v = StringV(s)
    \/ \E n \in 0..MaxElems :
           v = ArrayV([k \in 1..n |-> IF k = 1 THEN IntV(1) ELSE StringV(<<"a">>)])
    \/ \E n \in 0..MaxElems :
           v = ObjectV([k \in 1..n |-> Entry(KeyName(k), IF k = 1 THEN NullV ELSE IntV(k))])

\* what a coercion returned: i of asInt, b of asBool, s of asString
Returned(op, i, b, s) == [op |-> op, i |-> i, b |-> b, s |-> s]

NoCall == Returned("none", 0, FALSE, <<>>)

\* the Value component at rest, in the specifications of the other components
IdleValue ==
    /\ val = NullV
    /\ out = NoCall
    /\ origin = NoValue

InitValue ==
    /\ IsInput(val)
    /\ out = NoCall
    /\ origin = NoValue

\* int64_t r = val.asInt();
CallAsInt ==
    /\ out' = Returned("asInt", AsInt(val), FALSE, <<>>)
    /\ UNCHANGED <<val, origin, hashVars, chunkVars, memVars, runtimeVars>>

\* bool r = val.asBool();
CallAsBool ==
    /\ \E r \in AsBoolOutcomes(val) : out' = Returned("asBool", 0, r, <<>>)
    /\ UNCHANGED <<val, origin, hashVars, chunkVars, memVars, runtimeVars>>

\* std::string r = val.asString();
CallAsString ==
    /\ out' = Returned("asString", 0, FALSE, AsString(val))
    /\ UNCHANGED <<val, origin, hashVars, chunkVars, memVars, runtimeVars>>

\* Value(new ObjString(r)) of the string asString returned (definitions.h:156)
MakeString ==
    /\ out.op = "asString"
    /\ origin = NoValue
    /\ val' = StringV(out.s)
    /\ origin' = val
    /\ out' = NoCall
    /\ UNCHANGED <<hashVars, chunkVars, memVars, runtimeVars>>

NextValue == CallAsInt \/ CallAsBool \/ CallAsString \/ MakeString


----------------------------------------------------------------------------
(* Chunk, chunk.h:7-40. A byte (uint8_t) is ByteBits wide in the model and  *)
(* an immediate (int64_t) ImmBytes bytes, as in the source.                *)

ByteBits == 2         \* width of a byte in the model (8 in the source)
MaxWrites == 2        \* most writeByte / writeInt64 calls
MaxReads == 2         \* most readByte / readInt64 calls
MaxPool == 2          \* most constants of a Chunk

ImmBytes == 8         \* for (int i = 0; i < 8; ++i)

ByteMod == Pow2(ByteBits)               \* 0xff + 1
ImmMod == Pow2(ImmBytes * ByteBits)
ImmMax == (ImmMod \div 2) - 1
ImmMin == -(ImmMod \div 2)

\* the bits of an unsigned value read as int64_t
ImmToSigned(u) == LET m == u % ImmMod IN IF m > ImmMax THEN m - ImmMod ELSE m

\* chunk.h:19: static_cast<uint8_t>((value >> (i * 8)) & 0xff)
ByteOf(value, i) == (value \div Pow2(i * ByteBits)) % ByteMod

\* chunk.h:17-21: the bytes writeInt64 appends, lowest first
RECURSIVE EncodeFrom(_, _)
EncodeFrom(value, i) ==
    IF i < ImmBytes THEN <<ByteOf(value, i)>> \o EncodeFrom(value, i + 1) ELSE <<>>

\* code[at] for an index from 0: past the end the read is outside the
\* vector, and gives whatever the memory there holds (garbage)
CodeAt(bytes, at, garbage) == IF at < Len(bytes) THEN bytes[at + 1] ELSE garbage

\* a variant of chunk.h:30 that accumulates in an unsigned value wider than
\* the immediate, so that the sign bit is not read as a sign
OrShiftedUnsigned(value, byte, i) == value + byte * Pow2(i * ByteBits)

\* chunk.h:30: value |= static_cast<int64_t>(code[ip++]) << (i * 8); the
\* bits of value at and above i * 8 are still zero, so the or adds
OrShifted(value, byte, i) == ImmToSigned(value + byte * Pow2(i * ByteBits))

\* chunk.h:27-33: the loop of readInt64 from cursor at
RECURSIVE DecodeFrom(_, _, _, _, _)
DecodeFrom(bytes, at, i, value, garbage) ==
    IF i < ImmBytes
    THEN DecodeFrom(bytes, at + 1, i + 1,
                    OrShifted(value, CodeAt(bytes, at, garbage), i), garbage)
    ELSE [value |-> value, ip |-> at]

\* what a read outside the vector may give for a byte
GarbageBytes == {0, ByteMod - 1}

\* the arguments the model writes: bytes, and immediates of every kind (zero,
\* negative, the limits, and one whose bytes are 1, 2, 3, ... lowest first)
RECURSIVE Staircase(_)
Staircase(i) ==
    IF i < ImmBytes THEN ((i + 1) % ByteMod) * Pow2(i * ByteBits) + Staircase(i + 1) ELSE 0

\* what an uninitialized cursor may hold, other than 0
GarbageIps == {1}

ByteInputs == {1, ByteMod - 1}

ImmInputs == {0, -1, ImmMin, ImmMax, ImmToSigned(Staircase(0))}

Written(kind, value) == [kind |-> kind, value |-> value]

\* a read: the cursor it started at, what it returned, whether it read
\* outside the code, and whether it reported an error. readByte and readInt64
\* have no path that reports one.
ReadOf(kind, value, at, outside) ==
    [kind |-> kind, value |-> value, at |-> at, outside |-> outside,
     error |-> FALSE]

ConstRead(index, value, how) == [index |-> index, value |-> value, how |-> how]

NoConstRead == ConstRead(0, NoValue, "none")

\* a Chunk as the compiler declares it: no constructor, so the vectors start
\* empty and ip is left uninitialized unless the Chunk is value-initialized.
\* The struct has no member that fills constantPool; the pool is the one the
\* loader hands over.
InitChunk ==
    /\ code = <<>>
    /\ constantPool \in {<<>>, [k \in 1..MaxPool |-> IntV(k)]}
    /\ ip \in {0} \cup GarbageIps
    /\ wlog = <<>>
    /\ rlog = <<>>
    /\ constOut = NoConstRead

\* a variant of chunk.h:14 that inserts the byte at the front of the code
WriteByteAtFront(byte) ==
    /\ Len(wlog) < MaxWrites
    /\ code' = <<byte>> \o code
    /\ wlog' = Append(wlog, Written("byte", byte))
    /\ UNCHANGED <<constantPool, ip, rlog, constOut>>

\* chunk.h:13-15
WriteByte(byte) ==
    /\ Len(wlog) < MaxWrites
    /\ code' = Append(code, byte)
    /\ wlog' = Append(wlog, Written("byte", byte))
    /\ UNCHANGED <<constantPool, ip, rlog, constOut>>

\* chunk.h:17-21
WriteInt64(value) ==
    /\ Len(wlog) < MaxWrites
    /\ code' = code \o EncodeFrom(value, 0)
    /\ wlog' = Append(wlog, Written("int64", value))
    /\ UNCHANGED <<constantPool, ip, rlog, constOut>>

\* chunk.h:23-25: return code[ip++]; no test of ip against code.size()
ReadByte ==
    /\ Len(rlog) < MaxReads
    /\ \E garbage \in GarbageBytes :
           rlog' = Append(rlog, ReadOf("byte", CodeAt(code, ip, garbage), ip,
                                       ip >= Len(code)))
    /\ ip' = ip + 1
    /\ UNCHANGED <<code, constantPool, wlog, constOut>>

\* chunk.h:27-33
ReadInt64 ==
    /\ Len(rlog) < MaxReads
    /\ \E garbage \in GarbageBytes :
           LET r == DecodeFrom(code, ip, 0, 0, garbage) IN
           /\ rlog' = Append(rlog, ReadOf("int64", r.value, ip,
                                          ip + ImmBytes > Len(code)))
           /\ ip' = r.ip
    /\ UNCHANGED <<code, constantPool, wlog, constOut>>

\* chunk.h:35-39: an index outside the pool is answered with Null; for an
\* index inside it the function ends without a return statement, which is
\* undefined: the caller gets the constant, Null, or any other Value
ReadConstant(index) ==
    /\ IF index >= Len(constantPool)
       THEN constOut' = ConstRead(index, NullV, "returned")
       ELSE \E value \in {constantPool[index + 1], NullV, IntV(0)} :
                constOut' = ConstRead(index, value, "undefined")
    /\ UNCHANGED <<code, constantPool, ip, wlog, rlog>>

\* the writes and reads of the instruction stream
NextChunk ==
    \/ \E byte \in ByteInputs :
           WriteByte(byte) /\ UNCHANGED <<valueVars, hashVars, memVars, runtimeVars>>
    \/ \E value \in ImmInputs :
           WriteInt64(value) /\ UNCHANGED <<valueVars, hashVars, memVars, runtimeVars>>
    \/ ReadByte /\ UNCHANGED <<valueVars, hashVars, memVars, runtimeVars>>
    \/ ReadInt64 /\ UNCHANGED <<valueVars, hashVars, memVars, runtimeVars>>

\* the constants the loader hands over
ConstInputs == {NullV, IntV(1), IntV(2), BoolV(TRUE)}

\* a Chunk whose pool the loader has filled and whose code is still empty
InitPool ==
    /\ code = <<>>
    /\ constantPool \in SeqsUpTo(ConstInputs, MaxPool)
    /\ ip \in {0} \cup GarbageIps
    /\ wlog = <<>>
    /\ rlog = <<>>
    /\ constOut = NoConstRead

\* the reads of the constant pool
NextPool ==
    \E index \in 0..(MaxPool + 1) :
        ReadConstant(index) /\ UNCHANGED <<valueVars, hashVars, memVars, runtimeVars>>

----------------------------------------------------------------------------
(* MemoryManager, memory_manager.h:8-37 *)

MaxThreshold == 2     \* largest configured threshold
MaxObjects == 5       \* most objects newObject is asked for

\* a MemoryManager operation: the value of allocated when it was called and
\* whether the collector ran a cycle during the call
MemCall(op, before, ran) == [op |-> op, before |-> before, ran |-> ran]

\* MemoryManager::MemoryManager is declared (memory_manager.h:16) and defined
\* nowhere in the sources: a manager with nothing allocated, a configured
\* threshold and no engine state yet
InitMemory ==
    /\ allocated = 0
    /\ threshold \in 0..MaxThreshold
    /\ state = FALSE
    /\ created = 0
    /\ registered = 0
    /\ sinceCycle = 0
    /\ memLast = MemCall("none", 0, FALSE)

\* memory_manager.h:17-26. At the threshold the call made is gc->collect(),
\* the collector's own cycle, not MemoryManager::collect: nothing on this
\* path tests state or writes allocated.
NewObject ==
    /\ created < MaxObjects
    /\ LET ran == allocated >= threshold IN
       /\ created' = created + 1
       /\ registered' = registered + 1
       /\ sinceCycle' = (IF ran THEN 0 ELSE sinceCycle) + 1
       /\ allocated' = allocated + 1
       /\ memLast' = MemCall("newObject", allocated, ran)
    /\ UNCHANGED <<threshold, state>>

\* memory_manager.h:28-32
Collect ==
    /\ IF ~state
       THEN /\ memLast' = MemCall("collect", allocated, FALSE)
            /\ UNCHANGED <<allocated, sinceCycle>>
       ELSE /\ allocated' = 0
            /\ sinceCycle' = 0
            /\ memLast' = MemCall("collect", allocated, TRUE)
    /\ UNCHANGED <<threshold, state, created, registered>>

\* memory_manager.h:34-36
SetState(meowState) ==
    /\ state' = meowState
    /\ memLast' = MemCall("setState", allocated, FALSE)
    /\ UNCHANGED <<allocated, threshold, created, registered, sinceCycle>>

NextMemory ==
    \/ NewObject /\ UNCHANGED <<valueVars, hashVars, chunkVars, runtimeVars>>
    \/ Collect /\ UNCHANGED <<valueVars, hashVars, chunkVars, runtimeVars>>
    \/ \E meowState \in BOOLEAN :
           SetState(meowState) /\ UNCHANGED <<valueVars, hashVars, chunkVars, runtimeVars>>

----------------------------------------------------------------------------
(* MemoryManager::newObject statement by statement, memory_manager.h:17-26. *)
(* The engine runs on one thread: collect and setState are called between  *)
(* two newObject calls, never inside one.                                  *)

MaxCycles == 3        \* most collector cycles run

NoObject == 0

Registration(object, cycle) == [object |-> object, cycle |-> cycle]

IdleAlloc ==
    /\ pc = "idle"
    /\ cur = NoObject
    /\ calls = 0
    /\ built = <<>>
    /\ regLog = <<>>
    /\ returned = {}
    /\ cycles = 0

\* memory_manager.h:19-21: the collector runs before anything is constructed
NewObjectEnter ==
    /\ pc = "idle"
    /\ calls < MaxObjects
    /\ calls' = calls + 1
    /\ cycles' = IF allocated >= threshold THEN cycles + 1 ELSE cycles
    /\ pc' = "construct"
    /\ UNCHANGED <<cur, built, regLog, returned, memVars>>

\* memory_manager.h:22: new T(...)
NewObjectConstruct ==
    /\ pc = "construct"
    /\ cur' = Len(built) + 1
    /\ built' = Append(built, cycles)
    /\ pc' = "register"
    /\ UNCHANGED <<calls, regLog, returned, cycles, memVars>>

\* memory_manager.h:22: operator new or T's constructor throws; there is no
\* object and the call ends
NewObjectConstructThrows ==
    /\ pc = "construct"
    /\ pc' = "idle"
    /\ UNCHANGED <<cur, calls, built, regLog, returned, cycles, memVars>>

\* a variant of memory_manager.h:23 that leaves the registration out
NewObjectRegisterSkipped ==
    /\ pc = "register"
    /\ pc' = "count"
    /\ UNCHANGED <<cur, calls, built, regLog, returned, cycles, memVars>>

\* memory_manager.h:23: gc->registerObject(newObject)
NewObjectRegister ==
    /\ pc = "register"
    /\ regLog' = Append(regLog, Registration(cur, cycles))
    /\ pc' = "count"
    /\ UNCHANGED <<cur, calls, built, returned, cycles, memVars>>

\* memory_manager.h:23: registerObject throws; the object is neither
\* registered nor returned
NewObjectRegisterThrows ==
    /\ pc = "register"
    /\ pc' = "idle"
    /\ cur' = NoObject
    /\ UNCHANGED <<calls, built, regLog, returned, cycles, memVars>>

\* memory_manager.h:24-25: ++allocated; return newObject
NewObjectReturn ==
    /\ pc = "count"
    /\ allocated' = allocated + 1
    /\ returned' = returned \cup {cur}
    /\ cur' = NoObject
    /\ pc' = "idle"
    /\ UNCHANGED <<calls, built, regLog, cycles>>
    /\ UNCHANGED <<threshold, state, created, registered, sinceCycle, memLast>>

\* MemoryManager::collect called by the engine
CollectBetweenCalls ==
    /\ pc = "idle"
    /\ cycles < MaxCycles
    /\ Collect
    /\ cycles' = IF state THEN cycles + 1 ELSE cycles
    /\ UNCHANGED <<pc, cur, calls, built, regLog, returned>>

\* MemoryManager::setState called by the engine
SetStateBetweenCalls(meowState) ==
    /\ pc = "idle"
    /\ SetState(meowState)
    /\ UNCHANGED allocVars

NextAlloc ==
    \/ NewObjectEnter /\ UNCHANGED <<valueVars, hashVars, chunkVars, engineVars, runVars, traceVars>>
    \/ NewObjectConstruct /\ UNCHANGED <<valueVars, hashVars, chunkVars, engineVars, runVars, traceVars>>
    \/ NewObjectConstructThrows /\ UNCHANGED <<valueVars, hashVars, chunkVars, engineVars, runVars, traceVars>>
    \/ NewObjectRegister /\ UNCHANGED <<valueVars, hashVars, chunkVars, engineVars, runVars, traceVars>>
    \/ NewObjectRegisterThrows /\ UNCHANGED <<valueVars, hashVars, chunkVars, engineVars, runVars, traceVars>>
    \/ NewObjectReturn /\ UNCHANGED <<valueVars, hashVars, chunkVars, engineVars, runVars, traceVars>>
    \/ CollectBetweenCalls /\ UNCHANGED <<valueVars, hashVars, chunkVars, engineVars, runVars, traceVars>>
    \/ \E meowState \in BOOLEAN :
           SetStateBetweenCalls(meowState)
               /\ UNCHANGED <<valueVars, hashVars, chunkVars, engineVars, runVars, traceVars>>

----------------------------------------------------------------------------
(* MeowState, meow_state.h:12-30, and MeowVM::interpret, meow_vm.cpp:13-23. *)
(* MeowState is a struct of public containers: what they hold is whatever  *)
(* its holder put there.                                                   *)

MaxHeld == 2          \* most elements of a container of MeowState

HeapObjects == {1, 2}           \* the heap objects the state may point to
ModulePaths == {<<"m">>}        \* the keys of the module cache
CatchTargets == {1, 2}          \* the code positions a handler transfers to

\* a Value holding a pointer to heap object o (Bytes, String, Array, ...)
RefV(o) == [tag |-> "Ref", object |-> o]

\* definitions.h:504: a CallFrame has no member
CallFrame == [tag |-> "CallFrame"]

\* the element types Upvalue and ExceptionHandler of meow_state.h:15, 17:
\* an upvalue holds a Value, a handler its catch target and the Value it
\* captured
Upvalue(value) == [value |-> value]
ExceptionHandler(target, captured) == [target |-> target, captured |-> captured]

CacheEntry(path, module) == [first |-> path, second |-> module]

\* the module caches over ModulePaths: at most one entry per path
ModuleCaches ==
    {{CacheEntry(p, f[p]) : p \in P} : P \in SUBSET ModulePaths,
                                       f \in [ModulePaths -> HeapObjects]}

VmEnded(op, dirty, result) == [op |-> op, dirty |-> dirty, result |-> result]

NoVmCall == VmEnded("none", FALSE, "none")

RootsOf(how, objects) == [how |-> how, objects |-> objects]

NoRoots == RootsOf("none", {})

\* some container of the state holds an element
StateHolds ==
    \/ callStack # <<>>
    \/ stackSlots # <<>>
    \/ openUpvalues # <<>>
    \/ moduleCache # {}
    \/ exceptionHandlers # <<>>

IdleEngine ==
    /\ callStack = <<>>
    /\ stackSlots = <<>>
    /\ openUpvalues = <<>>
    /\ moduleCache = {}
    /\ exceptionHandlers = <<>>
    /\ vpc = "idle"
    /\ vmOut = NoVmCall
    /\ roots = NoRoots

\* a MeowState with anything in its containers, and no call made yet
InitEngine ==
    /\ callStack \in SeqsUpTo({CallFrame}, MaxHeld)
    /\ stackSlots \in SeqsUpTo({IntV(0)} \cup {RefV(o) : o \in HeapObjects}, MaxHeld)
    /\ openUpvalues \in SeqsUpTo({Upvalue(RefV(o)) : o \in HeapObjects}, MaxHeld)
    /\ moduleCache \in ModuleCaches
    /\ exceptionHandlers \in
           SeqsUpTo({ExceptionHandler(1, IntV(0)), ExceptionHandler(2, RefV(2))},
                    MaxHeld)
    /\ vpc = "idle"
    /\ vmOut = NoVmCall
    /\ roots = NoRoots

\* a variant of meow_state.h:19-25 without the last clear()
ClearedButHandlers ==
    /\ callStack' = <<>>
    /\ stackSlots' = <<>>
    /\ openUpvalues' = <<>>
    /\ moduleCache' = {}
    /\ UNCHANGED exceptionHandlers

\* meow_state.h:19-25: the five clear() calls of MeowState::reset
Cleared ==
    /\ callStack' = <<>>
    /\ stackSlots' = <<>>
    /\ openUpvalues' = <<>>
    /\ moduleCache' = {}
    /\ exceptionHandlers' = <<>>

\* meow_state.h:19-25
Reset ==
    /\ vpc = "idle"
    /\ Cleared
    /\ vmOut' = VmEnded("reset", StateHolds, "returned")
    /\ UNCHANGED <<vpc, roots>>

\* meow_vm.cpp:14: interpret begins with state.reset()
InterpretReset ==
    /\ vpc = "idle"
    /\ Cleared
    /\ vpc' = "try"
    /\ vmOut' = VmEnded("interpret", StateHolds, "running")
    /\ UNCHANGED roots

\* meow_vm.cpp:16-23: the try block holds no statement; interpret returns
InterpretReturn ==
    /\ vpc = "try"
    /\ vpc' = "idle"
    /\ vmOut' = VmEnded("interpret", vmOut.dirty, "returned")
    /\ UNCHANGED <<stateVars, roots>>

\* meow_state.h:27-29: the body is empty and the function returns a vector,
\* which is undefined: the caller gets any vector at all
GetRoots ==
    /\ vpc = "idle"
    /\ \E objects \in SUBSET HeapObjects : roots' = RootsOf("undefined", objects)
    /\ vmOut' = VmEnded("getRoots", StateHolds, "undefined")
    /\ UNCHANGED <<stateVars, vpc>>

NextEngine ==
    \/ Reset /\ UNCHANGED <<valueVars, hashVars, chunkVars, memVars, allocVars, runVars, traceVars>>
    \/ InterpretReset /\ UNCHANGED <<valueVars, hashVars, chunkVars, memVars, allocVars, runVars, traceVars>>
    \/ InterpretReturn /\ UNCHANGED <<valueVars, hashVars, chunkVars, memVars, allocVars, runVars, traceVars>>
    \/ GetRoots /\ UNCHANGED <<valueVars, hashVars, chunkVars, memVars, allocVars, runVars, traceVars>>

----------------------------------------------------------------------------
(* The execution inside the try block of MeowVM::interpret. The block is    *)
(* empty in meow_vm.cpp and no source file executes an instruction: the    *)
(* instructions THROW, SETUP_TRY and POP_TRY (op_codes.h:26), HALT and the  *)
(* fatal faults follow the specification of the engine. The catch clauses  *)
(* are those of meow_vm.cpp:18-22.                                         *)

MaxSteps == 4         \* most instructions executed in one interpret call

NoFault == "none"

\* the fatal faults other than a THROW no handler catches
FatalFaults == {"decode fault", "out of memory"}

Executed(op, target) == [op |-> op, target |-> target]

IdleRun ==
    /\ control = 0
    /\ pending = NoFault
    /\ trace = <<>>

\* execution is inside the try block and has not ended
Running == vpc = "try" /\ pending = NoFault /\ Len(trace) < MaxSteps

\* meow_vm.cpp:13-14: a call of interpret
RunInterpret ==
    /\ InterpretReset
    /\ control' = 0
    /\ pending' = NoFault
    /\ trace' = <<>>

\* SETUP_TRY pushes a handler with its catch target
RunSetupTry(target) ==
    /\ Running
    /\ Len(exceptionHandlers) < MaxHeld
    /\ exceptionHandlers' = Append(exceptionHandlers, ExceptionHandler(target, IntV(0)))
    /\ trace' = Append(trace, Executed("SETUP_TRY", target))
    /\ UNCHANGED <<callStack, stackSlots, openUpvalues, moduleCache>>
    /\ UNCHANGED <<vpc, vmOut, roots, control, pending>>

\* POP_TRY removes the handler pushed last
RunPopTry ==
    /\ Running
    /\ exceptionHandlers # <<>>
    /\ exceptionHandlers' = SubSeq(exceptionHandlers, 1, Len(exceptionHandlers) - 1)
    /\ trace' = Append(trace, Executed("POP_TRY", 0))
    /\ UNCHANGED <<callStack, stackSlots, openUpvalues, moduleCache>>
    /\ UNCHANGED <<vpc, vmOut, roots, control, pending>>

\* a variant of THROW that unwinds to the handler pushed first
RunThrowToOuter ==
    /\ Running
    /\ trace' = Append(trace, Executed("THROW", 0))
    /\ IF exceptionHandlers # <<>>
       THEN /\ control' = exceptionHandlers[1].target
            /\ exceptionHandlers' = Tail(exceptionHandlers)
            /\ UNCHANGED pending
       ELSE /\ pending' = "uncaught throw"
            /\ UNCHANGED <<control, exceptionHandlers>>
    /\ UNCHANGED <<callStack, stackSlots, openUpvalues, moduleCache>>
    /\ UNCHANGED <<vpc, vmOut, roots>>

\* THROW unwinds to the nearest handler, consumes it and transfers control
\* to its catch target; with no handler left the throw is fatal
RunThrow ==
    /\ Running
    /\ trace' = Append(trace, Executed("THROW", 0))
    /\ IF exceptionHandlers # <<>>
       THEN /\ control' = exceptionHandlers[Len(exceptionHandlers)].target
            /\ exceptionHandlers' =
                   SubSeq(exceptionHandlers, 1, Len(exceptionHandlers) - 1)
            /\ UNCHANGED pending
       ELSE /\ pending' = "uncaught throw"
            /\ UNCHANGED <<control, exceptionHandlers>>
    /\ UNCHANGED <<callStack, stackSlots, openUpvalues, moduleCache>>
    /\ UNCHANGED <<vpc, vmOut, roots>>

\* a decode or format fault, or the allocator out of memory
RunFault(fault) ==
    /\ Running
    /\ pending' = fault
    /\ UNCHANGED <<stateVars, vpc, vmOut, roots, control, trace>>

\* HALT: the try block ends and interpret returns (meow_vm.cpp:23)
RunHalt ==
    /\ pending = NoFault
    /\ InterpretReturn
    /\ UNCHANGED runVars

\* meow_vm.cpp:18-22: what the try block throws is caught by one of the two
\* catch clauses; both are empty and interpret, a void function, returns
InterpretCatch ==
    /\ vpc = "try"
    /\ pending # NoFault
    /\ vpc' = "idle"
    /\ vmOut' = VmEnded("interpret", vmOut.dirty, "returned")
    /\ UNCHANGED <<stateVars, roots, runVars>>

NextRun ==
    \/ RunInterpret /\ UNCHANGED <<valueVars, hashVars, chunkVars, memVars, allocVars, traceVars>>
    \/ \E target \in CatchTargets :
           RunSetupTry(target)
               /\ UNCHANGED <<valueVars, hashVars, chunkVars, memVars, allocVars, traceVars>>
    \/ RunPopTry /\ UNCHANGED <<valueVars, hashVars, chunkVars, memVars, allocVars, traceVars>>
    \/ RunThrow /\ UNCHANGED <<valueVars, hashVars, chunkVars, memVars, allocVars, traceVars>>
    \/ \E fault \in FatalFaults :
           RunFault(fault)
               /\ UNCHANGED <<valueVars, hashVars, chunkVars, memVars, allocVars, traceVars>>
    \/ RunHalt /\ UNCHANGED <<valueVars, hashVars, chunkVars, memVars, allocVars, traceVars>>
    \/ InterpretCatch /\ UNCHANGED <<valueVars, hashVars, chunkVars, memVars, allocVars, traceVars>>

----------------------------------------------------------------------------
(* MeowObject::trace of the heap objects, definitions.h:133, 214, 327-331,  *)
(* 476-480                                                                 *)

\* the Values an ObjArray or an ObjHash holds
HeldValues == {NullV, IntV(1), BoolV(TRUE), StringV(<<"a">>)}

\* the heap objects trace is called on
TraceInputs ==
    {BytesV(data) : data \in SeqsUpTo({0, 255}, MaxElems)}
    \cup {StringV(s) : s \in SeqsUpTo({"a", "b"}, MaxElems)}
    \cup {ArrayV(elements) : elements \in SeqsUpTo(HeldValues, MaxElems)}
    \cup UNION {{ObjectV([k \in 1..n |-> Entry(KeyName(k), values[k])]) :
                    values \in [1..n -> HeldValues]} : n \in 0..MaxElems}

IdleTrace ==
    /\ heapObj = NullV
    /\ visits = <<>>
    /\ traced = "none"

InitTrace ==
    /\ heapObj \in TraceInputs
    /\ visits = <<>>
    /\ traced = "none"

\* a variant of definitions.h:328 whose loop starts at the second element
VisitedFromSecond(elements) ==
    IF elements = <<>> THEN <<>> ELSE Tail(elements)

\* definitions.h:328-330: for (auto& element : elements) visitValue(element)
VisitedOfArray(elements) == elements

\* definitions.h:477-479: for (auto& pair : methods) visitValue(pair.second),
\* entries being the pairs in the order the map iterates them
VisitedOfHash(entries) == [k \in 1..Len(entries) |-> entries[k].second]

\* definitions.h:133: ObjBytes::trace, an empty body
TraceBytes ==
    /\ traced = "none"
    /\ heapObj.tag = "Bytes"
    /\ traced' = "Bytes"
    /\ UNCHANGED <<heapObj, visits>>

\* definitions.h:214: ObjString::trace, an empty body
TraceString ==
    /\ traced = "none"
    /\ heapObj.tag = "String"
    /\ traced' = "String"
    /\ UNCHANGED <<heapObj, visits>>

\* definitions.h:327-331: ObjArray::trace
TraceArray ==
    /\ traced = "none"
    /\ heapObj.tag = "Array"
    /\ visits' = visits \o VisitedOfArray(heapObj.elements)
    /\ traced' = "Array"
    /\ UNCHANGED heapObj

\* definitions.h:476-480: ObjHash::trace; the unordered_map iterates its
\* pairs in an order of its own
TraceHash ==
    /\ traced = "none"
    /\ heapObj.tag = "Object"
    /\ \E entries \in Orders(heapObj.methods) :
           visits' = visits \o VisitedOfHash(entries)
    /\ traced' = "Object"
    /\ UNCHANGED heapObj

NextTrace ==
    \/ TraceBytes
           /\ UNCHANGED <<valueVars, hashVars, chunkVars, memVars, allocVars,
                          engineVars, runVars>>
    \/ TraceString
           /\ UNCHANGED <<valueVars, hashVars, chunkVars, memVars, allocVars,
                          engineVars, runVars>>
    \/ TraceArray
           /\ UNCHANGED <<valueVars, hashVars, chunkVars, memVars, allocVars,
                          engineVars, runVars>>
    \/ TraceHash
           /\ UNCHANGED <<valueVars, hashVars, chunkVars, memVars, allocVars,
                          engineVars, runVars>>

----------------------------------------------------------------------------
(* Specifications: one per component, the other components at rest *)

IdleHash == InitHashObject

IdleChunk ==
    /\ code = <<>>
    /\ constantPool = <<>>
    /\ ip = 0
    /\ wlog = <<>>
    /\ rlog = <<>>
    /\ constOut = NoConstRead

IdleMemory ==
    /\ allocated = 0
    /\ threshold = 0
    /\ state = FALSE
    /\ created = 0
    /\ registered = 0
    /\ sinceCycle = 0
    /\ memLast = MemCall("none", 0, FALSE)

IdleRuntime == IdleAlloc /\ IdleEngine /\ IdleRun /\ IdleTrace

ValueStart == InitValue /\ IdleHash /\ IdleChunk /\ IdleMemory /\ IdleRuntime

SpecValue == ValueStart /\ [][NextValue]_vars

HashStart == InitHashObject /\ IdleValue /\ IdleChunk /\ IdleMemory /\ IdleRuntime

SpecHash == HashStart /\ [][NextHash]_vars

ChunkStart == InitChunk /\ IdleValue /\ IdleHash /\ IdleMemory /\ IdleRuntime

SpecChunk == ChunkStart /\ [][NextChunk]_vars

PoolStart == InitPool /\ IdleValue /\ IdleHash /\ IdleMemory /\ IdleRuntime

SpecPool == PoolStart /\ [][NextPool]_vars

MemoryStart == InitMemory /\ IdleValue /\ IdleHash /\ IdleChunk /\ IdleRuntime

SpecMemory == MemoryStart /\ [][NextMemory]_vars

AllocStart ==
    InitMemory /\ IdleAlloc /\ IdleValue /\ IdleHash /\ IdleChunk /\ IdleEngine
        /\ IdleRun /\ IdleTrace

SpecAlloc == AllocStart /\ [][NextAlloc]_vars

EngineStart ==
    InitEngine /\ IdleValue /\ IdleHash /\ IdleChunk /\ IdleMemory /\ IdleAlloc
        /\ IdleRun /\ IdleTrace

SpecEngine == EngineStart /\ [][NextEngine]_vars

RunStart ==
    IdleEngine /\ IdleRun /\ IdleValue /\ IdleHash /\ IdleChunk /\ IdleMemory
        /\ IdleAlloc /\ IdleTrace

SpecRun == RunStart /\ [][NextRun]_vars

TraceStart ==
    InitTrace /\ IdleValue /\ IdleHash /\ IdleChunk /\ IdleMemory /\ IdleAlloc
        /\ IdleEngine /\ IdleRun

SpecTrace == TraceStart /\ [][NextTrace]_vars

----------------------------------------------------------------------------
(* Claims about the coercions, checked under SpecValue *)

\* the number of elements of the container a reference Value points to
ContainerSize(v) ==
    CASE v.tag \in {"Bytes", "String"} -> Len(v.data)
      [] v.tag = "Array" -> Len(v.elements)
      [] v.tag = "Object" -> Len(v.methods)

\* C1: asBool of a Value holding a Bytes, String, Array or Object is false
\* when the container is empty and true when it holds an element.
C1_AsBoolIsNotEmpty ==
    (out.op = "asBool" /\ val.tag \in {"Bytes", "String", "Array", "Object"})
        => (out.b = (ContainerSize(val) # 0))

\* C2: asString of a Float never ends in a lone decimal point.
C2_NoTrailingPoint ==
    (out.op = "asString" /\ val.tag = "Float")
        => (out.s[Len(out.s)] # ".")

\* C3: asInt of the String holding Value(i).asString() is i, for every Int i.
C3_AsIntRoundTrip ==
    (out.op = "asInt" /\ origin.tag = "Int")
        => (val = StringV(IntToString(origin.i)) /\ out.i = origin.i)

C3_Witness ==
    /\ out.op = "asInt"
    /\ origin.tag = "Int"
    /\ origin.i = IntMin
    /\ val.tag = "String"
    /\ Len(val.data) > 1
    /\ out.i = IntMin

\* the value of the digit characters ds written in the given base
RECURSIVE PositionalValue(_, _)
PositionalValue(ds, base) ==
    IF ds = <<>> THEN 0
    ELSE PositionalValue(SubSeq(ds, 1, Len(ds) - 1), base) * base
             + DigitValue(ds[Len(ds)])

AllDigits(ds, base) == \A k \in 1..Len(ds) : DigitValue(ds[k]) < base

\* what C4 says asInt returns for s: a record with the claimed value when s
\* is an optional sign, a radix prefix and digits of that radix that fit
RadixClaim(s) ==
    LET signed == Len(s) >= 1 /\ s[1] \in {"+", "-"}
        body == IF signed THEN Tail(s) ELSE s
        sgn == IF signed /\ s[1] = "-" THEN -1 ELSE 1
        two == Len(body) >= 3 /\ body[1] = "0"
        digits == SubSeq(body, 3, Len(body))
        base == IF two /\ body[2] \in {"x", "X"} /\ AllDigits(digits, 16) THEN 16
                ELSE IF two /\ body[2] \in {"o", "O"} /\ AllDigits(digits, 8) THEN 8
                ELSE IF Len(body) >= 2 /\ body[1] = "0" /\ AllDigits(body, 8) THEN 8
                ELSE IF Len(body) >= 1 /\ body[1] # "0" /\ AllDigits(body, 10) THEN 10
                ELSE 0
        mag == IF base = 16 \/ (base = 8 /\ two /\ body[2] \in {"o", "O"})
               THEN PositionalValue(digits, base)
               ELSE PositionalValue(body, base)
    IN  [stated |-> base # 0 /\ mag <= IntMax, value |-> sgn * mag]

\* C4: asInt of a String applies the radix its prefix names: 0x hex, 0o
\* octal, a bare leading zero octal, anything else base 10, with the sign.
C4_RadixPrefix ==
    (out.op = "asInt" /\ val.tag = "String" /\ RadixClaim(val.data).stated)
        => (out.i = RadixClaim(val.data).value)

\* s is an optional sign, 0b or 0B, and binary digits only
IsBinaryLiteral(s) ==
    LET p == IF Len(s) >= 1 /\ s[1] \in {"+", "-"} THEN 1 ELSE 0 IN
    /\ Len(s) >= p + 2
    /\ s[p + 1] = "0"
    /\ s[p + 2] \in {"b", "B"}
    /\ AllDigits(SubSeq(s, p + 3, Len(s)), 2)

\* the index (from 0) of the first binary digit of a binary literal
BinaryStart(s) == (IF s[1] \in {"+", "-"} THEN 1 ELSE 0) + 2

BinaryDigitsOf(s) == SubSeq(s, BinaryStart(s) + 1, Len(s))

\* C5: asInt of a 0b literal is the exact value of its digits when that is
\* at most the Int maximum, else the Int maximum (the Int minimum after a
\* '-'), and the accumulator is at most the Int maximum after every digit.
C5_BinarySaturates ==
    (out.op = "asInt" /\ val.tag = "String" /\ IsBinaryLiteral(val.data))
        => LET s == val.data
               m == PositionalValue(BinaryDigitsOf(s), 2)
               run == BinaryLoop(s, BinaryStart(s), 0, s[1] = "-", <<>>)
           IN  /\ out.i = IF m <= IntMax THEN (IF s[1] = "-" THEN -m ELSE m)
                          ELSE IF s[1] = "-" THEN IntMin ELSE IntMax
               /\ \A k \in 1..Len(run.steps) : run.steps[k] <= IntMax

C5_Witness ==
    /\ out.op = "asInt"
    /\ val.tag = "String"
    /\ IsBinaryLiteral(val.data)
    /\ val.data[1] = "-"
    /\ PositionalValue(BinaryDigitsOf(val.data), 2) > IntMax + 1
    /\ out.i = IntMin

----------------------------------------------------------------------------
(* Claims about ObjHash, checked under SpecHash *)

\* C6: get of a key the ObjHash does not hold returns the Null Value and
\* does not fail; get of a key it holds returns the stored Value.
C6_GetAbsentIsNull ==
    (hashOut.op = "get")
        => LET k == FindEntry(methods, hashOut.key, 1) IN
           /\ hashOut.threw = ""
           /\ hashOut.value = IF k = 0 THEN NullV ELSE methods[k].second

----------------------------------------------------------------------------
(* Claims about the Chunk, checked under SpecChunk and SpecPool *)

\* C7: readConstant of an index outside the pool is reported as a decode
\* error, and is never answered with a Value.
C7_OutOfRangeIsError ==
    (constOut.how # "none" /\ constOut.index >= Len(constantPool))
        => (constOut.how = "error" /\ constOut.value = NoValue)

\* C8: a read that starts with too few bytes left in the code fails with a
\* decode error and does not move the cursor beyond the end of the code.
C8_ReadPastEndFails ==
    (rlog # <<>> /\ rlog[Len(rlog)].outside)
        => /\ rlog[Len(rlog)].error
           /\ ip <= Len(code) \/ ip = rlog[Len(rlog)].at

ItemSize(kind) == IF kind = "byte" THEN 1 ELSE ImmBytes

\* the offset in the code of the k-th item written (of the end of the code
\* for k = Len(wlog) + 1)
RECURSIVE OffsetOf(_)
OffsetOf(k) == IF k <= 1 THEN 0 ELSE OffsetOf(k - 1) + ItemSize(wlog[k - 1].kind)

\* bits ByteBits * j .. ByteBits * j + ByteBits - 1 of the two's complement
\* of value
BitsOf(value, j) ==
    ((IF value < 0 THEN value + ImmMod ELSE value) \div Pow2(ByteBits * j)) % ByteMod

\* the reads made are the reads that match the writes, in their order, each
\* made inside the code, the first one at the start of the code
MatchingReads ==
    /\ rlog # <<>>
    /\ Len(rlog) <= Len(wlog)
    /\ rlog[1].at = 0
    /\ \A k \in 1..Len(rlog) : rlog[k].kind = wlog[k].kind /\ ~rlog[k].outside

\* C9: an immediate is written as 8 bytes, lowest first, byte j holding its
\* bits 8j..8j+7, and the matching reads from the start of the code return
\* every value written, the cursor moving by 1 per byte and 8 per immediate.
C9_RoundTrip ==
    /\ Len(code) = OffsetOf(Len(wlog) + 1)
    /\ \A k \in 1..Len(wlog) :
           IF wlog[k].kind = "byte"
           THEN code[OffsetOf(k) + 1] = wlog[k].value
           ELSE \A j \in 0..(ImmBytes - 1) :
                    code[OffsetOf(k) + j + 1] = BitsOf(wlog[k].value, j)
    /\ MatchingReads
           => /\ \A k \in 1..Len(rlog) :
                     /\ rlog[k].value = wlog[k].value
                     /\ rlog[k].at = OffsetOf(k)
              /\ ip = OffsetOf(Len(rlog) + 1)

C9_Witness ==
    /\ MatchingReads
    /\ Len(rlog) = 2
    /\ wlog[1].kind = "int64"
    /\ wlog[1].value = ImmMin
    /\ wlog[2].kind = "byte"
    /\ rlog[1].value = ImmMin
    /\ ip = ImmBytes + 1

----------------------------------------------------------------------------
(* Claims about the MemoryManager, checked under SpecMemory *)

\* C10: a newObject called with allocated at or above the threshold runs a
\* collection before it returns and restarts the counter from zero, so that
\* on return the counter holds the one object just created.
C10_CounterRestarts ==
    (memLast.op = "newObject" /\ memLast.before >= threshold)
        => (memLast.ran /\ allocated = 1)

----------------------------------------------------------------------------
(* Claims about the allocation of heap objects, checked under SpecAlloc *)

\* the registerObject calls made with object o
RegistrationsOf(o) == {k \in DOMAIN regLog : regLog[k].object = o}

\* C11: every object newObject has returned was passed to registerObject
\* exactly once, and the collector ran no cycle between the construction of
\* the object and its registration.
C11_RegisteredOnceAtCreation ==
    \A o \in returned :
        /\ Cardinality(RegistrationsOf(o)) = 1
        /\ \A k \in RegistrationsOf(o) : regLog[k].cycle = built[o]

\* two objects returned, a collector cycle run before the second was built
C11_Witness ==
    /\ Cardinality(returned) >= 2
    /\ \E o \in returned : built[o] > 0
    /\ pc = "idle"

----------------------------------------------------------------------------
(* Claims about the engine state, checked under SpecEngine *)

\* C12: interpret resets the engine state before it executes: whatever the
\* containers held, at the start of the try block the call stack, the stack
\* slots, the open upvalues, the module cache and the handler stack are empty.
C12_InterpretResets ==
    vpc = "try" =>
        /\ callStack = <<>>
        /\ stackSlots = <<>>
        /\ openUpvalues = <<>>
        /\ moduleCache = {}
        /\ exceptionHandlers = <<>>

\* interpret is about to execute, called on a state that held elements
C12_Witness == vpc = "try" /\ vmOut.op = "interpret" /\ vmOut.dirty

\* the heap object a Value points to, if it points to one
PointedBy(value) == IF value.tag = "Ref" THEN {value.object} ELSE {}

\* the heap objects the engine state refers to: from the stack slots of a
\* live CallFrame, the open upvalues, the module cache and the handlers
ReferencedObjects ==
    UNION ({PointedBy(stackSlots[k]) : k \in DOMAIN stackSlots, f \in DOMAIN callStack}
           \cup {PointedBy(openUpvalues[k].value) : k \in DOMAIN openUpvalues}
           \cup {{e.second} : e \in moduleCache}
           \cup {PointedBy(exceptionHandlers[k].captured) :
                     k \in DOMAIN exceptionHandlers})

\* C14: the root set is complete: what getRoots returns includes every heap
\* object the engine state refers to.
C14_RootsComplete ==
    vmOut.op = "getRoots" => ReferencedObjects \subseteq roots.objects

----------------------------------------------------------------------------
(* Claims about the execution inside interpret, checked under SpecRun *)

\* C13: a fatal fault during interpret (a decode or format fault, resource
\* exhaustion, an uncaught THROW) is reported to the caller as a failure:
\* interpret never returns normally after one.
C13_FaultIsReported ==
    (vpc = "idle" /\ vmOut.op = "interpret" /\ pending # NoFault)
        => vmOut.result = "failure"

\* the handler stack with its last element removed
WithoutLast(s) == SubSeq(s, 1, Len(s) - 1)

\* the handlers are as nested regions A (outer) and B (inner) leave them
NestedRegions(a, b) ==
    LET A == Executed("SETUP_TRY", a)
        B == Executed("SETUP_TRY", b)
        T == Executed("THROW", 0)
        P == Executed("POP_TRY", 0)
    IN  /\ trace = <<A, B, T>> =>
            (control = b /\ exceptionHandlers = <<ExceptionHandler(a, IntV(0))>>)
        /\ trace = <<A, B, P>> =>
            exceptionHandlers = <<ExceptionHandler(a, IntV(0))>>
        /\ trace = <<A, B, P, T>> => (control = a /\ exceptionHandlers = <<>>)

\* C15: exception handlers nest as a stack: with regions A (outer) and B
\* (inner), a THROW inside B goes to B's catch target and leaves A's handler
\* active, a THROW after B's POP_TRY goes to A's target, and POP_TRY always
\* removes the handler pushed last and no other.
C15_HandlersNest ==
    /\ [](\A a, b \in CatchTargets : NestedRegions(a, b))
    /\ [][(Len(trace') > Len(trace) /\ trace'[Len(trace')].op = "POP_TRY")
              => exceptionHandlers' = WithoutLast(exceptionHandlers)]_vars

\* region B was left by POP_TRY and a THROW went to region A's target
C15_Witness ==
    /\ Len(trace) = 4
    /\ trace[1].op = "SETUP_TRY" /\ trace[2].op = "SETUP_TRY"
    /\ trace[1].target # trace[2].target
    /\ trace[3].op = "POP_TRY" /\ trace[4].op = "THROW"
    /\ control = trace[1].target

----------------------------------------------------------------------------
(* Claims about tracing, checked under SpecTrace *)

\* how many times value occurs in the sequence s
TimesIn(s, value) == Cardinality({k \in DOMAIN s : s[k] = value})

\* the Values the object holds, one per element or entry
HeldBy(object) ==
    CASE object.tag = "Array" -> object.elements
      [] object.tag = "Object" ->
             [k \in 1..Len(object.methods) |-> object.methods[k].second]
      [] OTHER -> <<>>

\* C16: trace reports exactly what the object holds: ObjArray::trace makes
\* one visitValue call per element, ObjHash::trace one per stored Value,
\* ObjBytes::trace and ObjString::trace make none, and the object is left as
\* it was.
C16_TraceVisitsAll ==
    /\ [](traced # "none" =>
             /\ traced = heapObj.tag
             /\ Len(visits) = Len(HeldBy(heapObj))
             /\ \A value \in HeldValues :
                    TimesIn(visits, value) = TimesIn(HeldBy(heapObj), value))
    /\ [][heapObj' = heapObj]_vars

\* an ObjHash holding the same Value under two keys has been traced
C16_Witness ==
    /\ traced = "Object"
    /\ Len(heapObj.methods) = 2
    /\ heapObj.methods[1].second = heapObj.methods[2].second
    /\ Len(visits) = 2

----------------------------------------------------------------------------
(* Further claims about the Chunk, checked under SpecPool and SpecChunk *)

\* C17: for an index inside the constant pool, readConstant returns the Value
\* stored at that position.
C17_ReadsPoolAtIndex ==
    (constOut.how # "none" /\ constOut.index < Len(constantPool))
        => constOut.value = constantPool[constOut.index + 1]

----------------------------------------------------------------------------
(* Further claims about asInt, checked under SpecValue *)

\* s without the white space at its two ends
Stripped(s) ==
    LET inked == {k \in DOMAIN s : ~IsSpace(s[k])} IN
    IF inked = {} THEN <<>>
    ELSE SubSeq(s, CHOOSE k \in inked : \A j \in inked : k <= j,
                   CHOOSE k \in inked : \A j \in inked : k >= j)

\* s after its sign, if it has one
Unsigned(s) == IF s # <<>> /\ s[1] \in {"+", "-"} THEN Tail(s) ELSE s

\* s is an optional sign and decimal digits that do not begin with a zero
IsDecimalLiteral(s) ==
    /\ Unsigned(s) # <<>>
    /\ Unsigned(s)[1] # "0"
    /\ AllDigits(Unsigned(s), 10)

\* the number the decimal literal s writes
DecimalValue(s) ==
    (IF s[1] = "-" THEN -1 ELSE 1) * PositionalValue(Unsigned(s), 10)

\* C18: asInt of a String falls back as specified: 0 for a string that is
\* empty or white space, that is a sign alone, or whose content does not
\* begin (after the sign) with a digit; the nearest limit for a base-10
\* literal out of range; and white space at the ends never changes the
\* result.
C18_AsIntFallbacks ==
    (out.op = "asInt" /\ val.tag = "String") =>
        LET s == Stripped(val.data) IN
        /\ s = <<>> => out.i = 0
        /\ (s # <<>> /\ Unsigned(s) = <<>>) => out.i = 0
        /\ (Unsigned(s) # <<>> /\ ~IsDigit(Unsigned(s)[1])) => out.i = 0
        /\ (IsDecimalLiteral(s) /\ DecimalValue(s) > IntMax) => out.i = IntMax
        /\ (IsDecimalLiteral(s) /\ DecimalValue(s) < IntMin) => out.i = IntMin
        /\ out.i = AsInt(StringV(s))
        /\ \A pad \in {<<" ">>, <<"\t">>} :
               /\ out.i = AsInt(StringV(pad \o val.data))
               /\ out.i = AsInt(StringV(val.data \o pad))

\* asInt has returned the lower limit for a decimal literal below it
C18_Witness ==
    /\ out.op = "asInt"
    /\ val.tag = "String"
    /\ IsDecimalLiteral(val.data)
    /\ DecimalValue(val.data) < IntMin
    /\ out.i = IntMin

\* the bytes a write of the given kind adds to the code
GrowthOf(kind) == IF kind = "byte" THEN 1 ELSE ImmBytes

\* C19: the instruction stream is append-only: writeByte adds one byte and
\* writeInt64 eight at the end of the code, and neither changes a byte
\* already written, the constant pool or the read cursor.
C19_AppendOnly ==
    [][Len(wlog') > Len(wlog) =>
          /\ Len(code') = Len(code) + GrowthOf(wlog'[Len(wlog')].kind)
          /\ SubSeq(code', 1, Len(code)) = code
          /\ constantPool' = constantPool
          /\ ip' = ip]_vars

\* a byte and an immediate were written, the second after the first
C19_Witness ==
    /\ Len(wlog) = 2
    /\ wlog[1].kind # wlog[2].kind
    /\ Len(code) = 1 + ImmBytes
    /\ constantPool # <<>>

----------------------------------------------------------------------------
(* A further claim about the MemoryManager, checked under SpecMemory *)

\* C20: the occupancy counter stays bounded by the threshold: after any
\* newObject, collect and setState calls, allocated is at most threshold
\* (for a threshold of at least 1) and is the number of objects created
\* since the collector last ran a cycle.
C20_CounterBounded ==
    /\ threshold >= 1 => allocated <= threshold
    /\ allocated = sinceCycle

====
